---- MODULE Spec2Model ----
(***************************************************************************)
(* CsvImportComponent (csv-import.component.ts): CSV upload, mapping of    *)
(* WooCommerce rows to CabinetProduct inputs, and the batched bulk import. *)
(*                                                                         *)
(* Representation of JavaScript values:                                    *)
(*   - a string is a sequence of tokens; a token is a record [w, n]: a     *)
(*     word w, or a numeral (w = "#", value n), or a numeral followed by a *)
(*     letter ("9W" is [w |-> "#W", n |-> 9]).  Tokens of a multi-word     *)
(*     string are separated by single blanks; the empty string is << >>;   *)
(*   - a raw row is a function from column names to strings; a column the  *)
(*     parser left out (short row) is absent from the domain (undefined);  *)
(*   - null / undefined / NaN of an optional value is << >>, a present     *)
(*     value v is <<v>>;                                                   *)
(*   - discountPrice is kept in hundredths (retailPrice * (100 - d)), so   *)
(*     that p * (1 - d/100) stays an integer.                              *)
(***************************************************************************)
EXTENDS Integers, Sequences, FiniteSets, TLC

\* ------------------------------------------------------------------------
\* Program constants
\* ------------------------------------------------------------------------
batchSize == 10

PreviewSize == 10

\* ------------------------------------------------------------------------
\* Bounds of the model
\* ------------------------------------------------------------------------
\* rows of the largest sample file
MaxRows == 11

\* onImportRows invocations that may be in flight together
MaxRuns == 2

\* Papa.parse calls that may be in flight together
MaxParses == 1

\* rows of the largest file of the input-driven specification
MaxTotal == 25

\* ------------------------------------------------------------------------
\* Strings, numbers and optional values
\* ------------------------------------------------------------------------
Word(s) == [w |-> s, n |-> 0]

Num(k) == [w |-> "#", n |-> k]

NumW(k) == [w |-> "#W", n |-> k]

NumH(k) == [w |-> "#H", n |-> k]

Str(s) == <<Word(s)>>

NumStr(k) == <<Num(k)>>

Empty == << >>

\* null, undefined, NaN
Null == << >>

Some(v) == <<v>>

\* a ?? b
Coalesce(a, b) == IF a = Null THEN b ELSE a[1]

\* row[col], where undefined and '' are both falsy: row[col] || ''
Field(row, col) == IF col \in DOMAIN row THEN row[col] ELSE Empty

\* truthiness of row[col]
Truthy(row, col) == col \in DOMAIN row /\ row[col] # Empty

\* parseFloat(s): the numeric prefix of s, NaN (Null) when there is none
parseFloat(s) ==
    IF s # Empty /\ s[1].w \in {"#", "#W", "#H"} THEN Some(s[1].n) ELSE Null

\* parseFloat(s) || 0 : NaN and 0 both give 0
OrZero(x) == IF x = Null THEN 0 ELSE x[1]

\* parseInt(s) || 1
OrOne(x) == IF x = Null \/ x[1] = 0 THEN 1 ELSE x[1]

\* s.toLowerCase() on the words the model uses
LowerWord(s) ==
    CASE s = "Cabinet" -> "cabinet"
      [] s = "CABINET" -> "cabinet"
      [] s = "X" -> "x"
      [] s = "Width:" -> "width:"
      [] s = "Height:" -> "height:"
      [] s = "Door:" -> "door:"
      [] s = "Double-Door" -> "double-door"
      [] s = "Single-Door" -> "single-door"
      [] OTHER -> s

\* first index k >= from with P(k), 0 when there is none
RECURSIVE FirstIndex(_, _, _)
FirstIndex(flags, from, to) ==
    IF from > to THEN 0
    ELSE IF flags[from] THEN from
    ELSE FirstIndex(flags, from + 1, to)

\* variant: s.slice(from - 1), without an end
SliceOpen(s, from, to) ==
    IF from > Len(s) THEN << >> ELSE SubSeq(s, from, Len(s))

\* s.slice(from - 1, to) in 1-based inclusive positions
Slice(s, from, to) ==
    IF from > to \/ from > Len(s) THEN << >>
    ELSE SubSeq(s, from, IF to > Len(s) THEN Len(s) ELSE to)

\* ------------------------------------------------------------------------
\* Field Mapper: mapToCabinetProduct
\* ------------------------------------------------------------------------
IsNumeral(tok) == tok.w \in {"#", "#W", "#H"}

\* variant: keeps every row that has a SKU column, empty or not
FilterSKUColumn(rows) == SelectSeq(rows, LAMBDA row : "SKU" \in DOMAIN row)

\* rows.filter(row => row.SKU)
FilterSKU(rows) == SelectSeq(rows, LAMBDA row : Truthy(row, "SKU"))

\* (row.Name || '').match(/^(.*?)\s+(.*?\s+.*?)\s+(.*?\s+Cabinet)\s+(.*)$/i):
\* the index of the token "Cabinet" that closes group 3, 0 when no match.
\* Group 1 is token 1 and group 2 is tokens 2..3 (lazy quantifiers), group 3
\* needs one token before "Cabinet" and group 4 a blank after it.
NameMatch(nm) ==
    IF Len(nm) < 6 THEN 0
    ELSE FirstIndex([k \in 1..Len(nm) |-> LowerWord(nm[k].w) = "cabinet"],
                    5, Len(nm) - 1)

\* collectionStyle.includes('Shaker')
IncludesShaker(s) == \E k \in 1..Len(s) : s[k].w \in {"Shaker", "Shakers"}

\* nameParts?.[1] || 'Forevermark'
Brand(nm) == IF NameMatch(nm) # 0 THEN <<nm[1]>> ELSE Str("Forevermark")

\* nameParts?.[2] || ''
CollectionStyle(nm) == IF NameMatch(nm) # 0 THEN <<nm[2], nm[3]>> ELSE Empty

\* collectionStyle.includes('Shaker') ? 'Shaker'
\*   : collectionStyle.split(' ').pop() || 'Shaker'
TitleDoorStyle(nm) ==
    LET cs == CollectionStyle(nm) IN
    IF IncludesShaker(cs) THEN Str("Shaker")
    ELSE IF cs # Empty THEN <<cs[Len(cs)]>>
    ELSE Str("Shaker")

\* (row.Name || '').match(/(\d+)W\s+X\s+(\d+)H$/i)
SizeMatch(nm) ==
    /\ Len(nm) >= 3
    /\ nm[Len(nm)].w = "#H"
    /\ LowerWord(nm[Len(nm) - 1].w) = "x"
    /\ nm[Len(nm) - 2].w = "#W"

\* parseFloat(sizeMatch?.[1] || '0'), parseFloat(sizeMatch?.[2] || '0')
TitleWidth(nm) == IF SizeMatch(nm) THEN nm[Len(nm) - 2].n ELSE 0

TitleHeight(nm) == IF SizeMatch(nm) THEN nm[Len(nm)].n ELSE 0

\* shortDesc.match(/<key>\s*(\d+(?:\.\d+)?)/i): the captured numeral, Null
\* when the pattern does not match
DescMatch(sd, key) ==
    LET k == FirstIndex([j \in 1..Len(sd) |->
                            /\ LowerWord(sd[j].w) = key
                            /\ j < Len(sd)
                            /\ IsNumeral(sd[j + 1])], 1, Len(sd))
    IN  IF k = 0 THEN Null ELSE Some(sd[k + 1].n)

\* parseFloat(widthMatch?.[1] || width.toString()) || 0
Dimension(sd, key, fromTitle) ==
    LET m == DescMatch(sd, key) IN
    IF m # Null THEN m[1] ELSE fromTitle

\* parseInt(doorMatch?.[1] || '1') || 1
Doors(sd) ==
    LET m == DescMatch(sd, "door:") IN
    OrOne(IF m # Null THEN m ELSE Some(1))

\* tags.includes(marker), tags = (row.Tags || '').toLowerCase()
TagsInclude(tags, marker) ==
    \E k \in 1..Len(tags) : LowerWord(tags[k].w) = marker

\* tags.includes('double-door') ? 'Double Door'
\*   : (tags.includes('single-door') ? 'Single Door' : `${doors} Door`)
TagDoorStyle(tags, doors) ==
    IF TagsInclude(tags, "double-door") THEN <<Word("Double"), Word("Door")>>
    ELSE IF TagsInclude(tags, "single-door")
         THEN <<Word("Single"), Word("Door")>>
    ELSE <<Num(doors), Word("Door")>>

\* tagDoorStyle || doorStyle || ''
DoorStyle(tagDoorStyle, doorStyle) ==
    IF tagDoorStyle # Empty THEN tagDoorStyle
    ELSE IF doorStyle # Empty THEN doorStyle
    ELSE Empty

\* parseFloat(row['Regular price'] || row['Sale price'] || '0') || 0
RetailPrice(row) ==
    OrZero(parseFloat(IF Truthy(row, "Regular price") THEN row["Regular price"]
                      ELSE IF Truthy(row, "Sale price") THEN row["Sale price"]
                      ELSE NumStr(0)))

\* row.Images ? (row.Images.split(',')[0] || '').trim() : ''
ImagePath(row) ==
    LET im == Field(row, "Images")
        c  == FirstIndex([k \in 1..Len(im) |-> im[k].w = ","], 1, Len(im))
    IN  IF c = 0 THEN im ELSE Slice(im, 1, c - 1)

\* row[`Meta: ${key}`]
extractMeta(row, key) == Field(row, "Meta: " \o key)

\* (row.SKU || '').replace(/^AZ-/, target)
ReplacePrefix(sku, target) ==
    IF sku # Empty /\ sku[1] = Word("AZ-") THEN <<Word(target)>> \o Tail(sku)
    ELSE sku

\* the record built for one row
MapRow(row) ==
    LET nm    == Field(row, "Name")
        sd    == Field(row, "Short description")
        doors == Doors(sd)
    IN  [ wSKU          |-> ReplacePrefix(Field(row, "SKU"), "W-"),
          vSKU          |-> ReplacePrefix(Field(row, "SKU"), "V-"),
          brand         |-> Brand(nm),
          doorStyle     |-> DoorStyle(TagDoorStyle(Field(row, "Tags"), doors),
                                      TitleDoorStyle(nm)),
          discount      |-> 0,
          costFactor    |-> 1,
          assemblyFee   |-> OrZero(parseFloat(extractMeta(row, "assembly_fee"))),
          assemblyCost  |-> OrZero(parseFloat(extractMeta(row, "assembly_cost"))),
          retailPrice   |-> RetailPrice(row),
          discountPrice |-> 0,
          height        |-> Dimension(sd, "height:", TitleHeight(nm)),
          width         |-> Dimension(sd, "width:", TitleWidth(nm)),
          weight        |-> OrZero(parseFloat(Field(row, "Weight (lbs)"))),
          species       |-> Str("MDF"),
          imagePath     |-> ImagePath(row),
          categories    |-> Field(row, "Categories"),
          tags          |-> Field(row, "Tags"),
          publish       |-> (Field(row, "Published") = NumStr(1)) ]

\* rows.filter(row => row.SKU).map(row => {...})
mapToCabinetProduct(rows) ==
    LET kept == FilterSKU(rows) IN
    [k \in 1..Len(kept) |-> MapRow(kept[k])]

\* ------------------------------------------------------------------------
\* Inputs: sample rows, files and form values
\* ------------------------------------------------------------------------
SampleRow(k) ==
    ("SKU" :> <<Word("AZ-"), Num(k)>>) @@
    ("Regular price" :> NumStr(k)) @@
    ("Published" :> NumStr(k % 2))

\* a row whose SKU column is empty
BlankRow == ("SKU" :> Empty) @@ ("Regular price" :> NumStr(7))

\* a short row: the parser left the trailing columns out
ShortRow == ("SKU" :> <<Word("AZ-"), Word("S")>>)

SampleRows(n) == [k \in 1..n |-> SampleRow(k)]

\* file names; the sample files have different names
CsvName(base) == [base |-> base, ext |-> ".csv"]

TxtName(base) == [base |-> base, ext |-> ".txt"]

\* the outcome of Papa.parse on a file: complete(results) with results.data
\* and results.errors, or error(err)
ParsedFile(name, data, errors) ==
    [name |-> name, outcome |-> "complete", data |-> data, errors |-> errors,
     message |-> ""]

UnreadableFile(name) ==
    [name |-> name, outcome |-> "error", data |-> << >>, errors |-> << >>,
     message |-> "NotReadableError"]

ParseErr(code, message) == [code |-> code, message |-> message]

\* a file with a structural parse error next to a tolerated one
MalformedFile ==
    ParsedFile(CsvName("malformed"), <<SampleRow(1)>>,
               <<ParseErr("TooFewFields", "Too few fields"),
                 ParseErr("MissingQuotes", "Quoted field unterminated")>>)

\* a file that is not CSV
TextFile == ParsedFile(TxtName("notes"), SampleRows(1), << >>)

\* a file with one row that has a SKU, and a file with none
OneRowFile == ParsedFile(CsvName("one"), <<SampleRow(1), BlankRow>>, << >>)

NoRowFile == ParsedFile(CsvName("blank"), <<BlankRow>>, << >>)

\* a file with a blank and a short row between rows that have a SKU; the
\* parser reports the short row as TooFewFields
ShortRowFile ==
    ParsedFile(CsvName("short"), <<SampleRow(1), BlankRow, ShortRow>>,
               <<ParseErr("TooFewFields", "Too few fields")>>)

\* well-formed files of every length up to MaxRows
LongFiles ==
    { ParsedFile(CsvName("rows" \o ToString(n)), SampleRows(n), << >>) :
          n \in 0..MaxRows }

\* a file the parser cannot read
LockedFile == UnreadableFile(CsvName("locked"))

\* the files of the free-running specification and of the sequential one
Files == {OneRowFile, NoRowFile, LockedFile, TextFile}

SoloFiles ==
    LongFiles \cup
    {ShortRowFile, NoRowFile, MalformedFile, LockedFile, TextFile}

AllFiles == Files \cup SoloFiles

\* Papa.parse calls are keyed by the name of their file
FileKeys == { f.name.base : f \in AllFiles } \cup {"probe"}

\* event.target.files / event.dataTransfer.files: empty or one file
FileListsOf(S) == {<< >>} \cup { <<f>> : f \in S }

\* values the operator can give the two form controls
PublishInputs == {Some(FALSE), Some(TRUE)}

DiscountInputs == {Some(0), Some(101), Some(0 - 1)}

\* file.name.endsWith('.csv')
EndsWithCsv(name) == name.ext = ".csv"

\* the value of the form the constructor builds
InitialForm == [defaultPublish |-> Some(FALSE), defaultDiscount |-> Some(0)]

\* values of the columns the mapper reads.  Titles: one whose "Cabinet" is
\* the fourth word, two that the title pattern matches, one without a size
AcmeName ==
    <<Word("Acme"), Word("Shaker"), Word("Wall"), Word("Cabinet"),
      NumW(9), Word("X"), NumH(30)>>

ChampagneName ==
    <<Word("Forevermark"), Word("Champagne"), Word("Shaker"), Word("Wall"),
      Word("Cabinet"), NumW(9), Word("X"), NumH(30)>>

IceWhiteName ==
    <<Word("Forevermark"), Word("Ice"), Word("White"), Word("Base"),
      Word("CABINET"), NumW(12), Word("X"), NumH(34)>>

PlainName == <<Word("Plain"), Word("Shelf")>>

\* short descriptions: every entry numeric, zero entries, entries that are
\* not numbers, and a height alone
FullDesc ==
    <<Word("Width:"), Num(12), Word("Height:"), Num(33), Word("Door:"), Num(2)>>

ZeroDesc ==
    <<Word("Width:"), Num(0), Word("Height:"), Num(33), Word("Door:"), Num(0)>>

WordyDesc == <<Word("Width:"), Word("wide"), Word("Door:"), Word("two")>>

HeightDesc == <<Word("Height:"), Num(33)>>

\* a row without the column, or with one of the values in it
NoColumn == [c \in {} |-> Empty]

OptCol(col, values) == {NoColumn} \cup { col :> v : v \in values }

SkuCells ==
    OptCol("SKU", {Empty, <<Word("AZ-"), Num(123)>>, <<Word("X-"), Num(7)>>})

NameCells ==
    OptCol("Name", {AcmeName, ChampagneName, IceWhiteName, PlainName})

DescCells ==
    OptCol("Short description", {FullDesc, ZeroDesc, WordyDesc, HeightDesc})

TagCells ==
    OptCol("Tags", {<<Word("double-door")>>,
                    <<Word("white"), Word("Single-Door")>>,
                    <<Word("white")>>})

RegularCells == OptCol("Regular price", {Empty, NumStr(20), Str("call")})

SaleCells == OptCol("Sale price", {NumStr(15), Str("n/a")})

PublishedCells == {"Published" :> NumStr(1), "Published" :> NumStr(0)}

\* rows of results.data: every combination of the column values
RowInputs ==
    { s @@ n @@ d @@ t @@ r @@ l @@ b :
        s \in SkuCells, n \in NameCells, d \in DescCells, t \in TagCells,
        r \in RegularCells, l \in SaleCells, b \in PublishedCells }

\* a row with a SKU, a price and a Published flag
PricedRow(pub, price) ==
    ("SKU" :> <<Word("AZ-"), Num(1)>>) @@
    ("Regular price" :> NumStr(price)) @@
    ("Published" :> NumStr(pub))

\* values the operator can leave in the discount control: cleared (null) or
\* a number
FormDiscounts ==
    {Null, Some(0), Some(15), Some(50), Some(100), Some(101)}

\* the form with the edits of the operator: a control that was not set has
\* its initial value
FormInputs ==
    { [publishSet |-> ps, discountSet |-> ds,
       form |-> [defaultPublish |-> p, defaultDiscount |-> d]] :
        ps \in BOOLEAN, ds \in BOOLEAN,
        p \in PublishInputs, d \in FormDiscounts }

FormEdits ==
    { e \in FormInputs :
        /\ ~e.publishSet => e.form.defaultPublish = InitialForm.defaultPublish
        /\ ~e.discountSet =>
               e.form.defaultDiscount = InitialForm.defaultDiscount }

\* a probe: the rows of the file being parsed, and the form as the operator
\* left it
Probe(data, edits) ==
    [data |-> data, publishSet |-> edits.publishSet,
     discountSet |-> edits.discountSet, form |-> edits.form]

Untouched == [publishSet |-> FALSE, discountSet |-> FALSE, form |-> InitialForm]

\* one row of any shape under the initial form; a priced row under every
\* form; files of every length up to MaxTotal under the initial form
MapProbes == { Probe(<<row>>, Untouched) : row \in RowInputs }

InputProbes ==
    { Probe(<<PricedRow(pub, price)>>, e) :
        pub \in {0, 1}, price \in {0, 20}, e \in FormEdits }

BatchProbes == { Probe(SampleRows(n), Untouched) : n \in 1..MaxTotal }

\* a row without a SKU column
NoSkuRow == ("Regular price" :> NumStr(3))

\* a file whose rows with a SKU stand between rows without one
MixedRows ==
    <<BlankRow, SampleRow(1), ShortRow, NoSkuRow, BlankRow, SampleRow(2)>>

MixedProbe == Probe(MixedRows, Untouched)

Probes == MapProbes \cup InputProbes \cup BatchProbes \cup {MixedProbe}

\* ------------------------------------------------------------------------
\* Messages
\* ------------------------------------------------------------------------
Msg(kind, a, b, text) == [kind |-> kind, a |-> a, b |-> b, text |-> text]

NullMsg == Msg("null", 0, 0, "")

DropCsvMsg == Msg("Please drop a valid CSV file.", 0, 0, "")

SelectCsvMsg == Msg("Please select a valid CSV file.", 0, 0, "")

ParseErrorsMsg(text) == Msg("Parse errors: ", 0, 0, text)

ParseFailedMsg(text) == Msg("Failed to parse file: ", 0, 0, text)

MappedMsg(mapped, parsed) ==
    Msg("rows mapped successfully from parsed.", mapped, parsed, "")

InvalidMsg == Msg("Invalid form or no rows to import.", 0, 0, "")

ImportedAllMsg(count) == Msg("Successfully imported rows!", count, 0, "")

ImportedPartMsg(count, total) ==
    Msg("Imported of rows. Check console for errors.", count, total, "")

\* ------------------------------------------------------------------------
\* State
\* ------------------------------------------------------------------------
VARIABLES
    parsedRows,      \* raw parsed CSV rows
    mappedRows,      \* mapped CabinetProduct inputs
    previewRows,     \* first rows of mappedRows, for the preview table
    isParsing,       \* loading state for upload/parse
    isDragOver,      \* drag-over feedback
    isImporting,     \* loading state for import
    importProgress,  \* progress (0-100)
    errorMessage,    \* error message, NullMsg when null
    successMessage,  \* success message, NullMsg when null
    importedCount,   \* total imported count
    importForm,      \* value of the form: defaultPublish, defaultDiscount
    activated,       \* ngOnInit has run
    parses,          \* Papa.parse calls in flight: file name -> number
    runs,            \* onImportRows invocations: slot -> position and locals
    probe            \* the file under parse and the operator's form edits

session == <<parsedRows, mappedRows, previewRows, isParsing, isDragOver,
             isImporting, importProgress, errorMessage, successMessage,
             importedCount>>

vars == <<parsedRows, mappedRows, previewRows, isParsing, isDragOver,
          isImporting, importProgress, errorMessage, successMessage,
          importedCount, importForm, activated, parses, runs, probe>>

RunIds == 1..MaxRuns

\* an onImportRows invocation: pc is its position ("idle": slot unused,
\* "await": at `await Promise.all(batchPromises)`, "yield": at the
\* setTimeout(0) await); i, batch, defaults are its locals; pending /
\* nonNull count the batch's promises that are unsettled / settled with a
\* non-null result.  calls, batches, succeeded and failed are history: the
\* create-operations the invocation has issued, the batches it has started
\* and the outcomes of its create-operations.  A slot is idle again when the
\* invocation returns.
IdleRun ==
    [pc |-> "idle", i |-> 0, batch |-> << >>,
     defaults |-> [defaultPublish |-> Null, defaultDiscount |-> Null],
     pending |-> 0, nonNull |-> 0,
     calls |-> << >>, batches |-> 0, succeeded |-> 0, failed |-> 0]

\* the specifications of the whole component keep no probe
NoProbe == Probe(<< >>, Untouched)

Init ==
    /\ parsedRows = << >>
    /\ mappedRows = << >>
    /\ previewRows = << >>
    /\ isParsing = FALSE
    /\ isDragOver = FALSE
    /\ isImporting = FALSE
    /\ importProgress = 0
    /\ errorMessage = NullMsg
    /\ successMessage = NullMsg
    /\ importedCount = 0
    /\ importForm = [defaultPublish |-> Some(FALSE), defaultDiscount |-> Some(0)]
    /\ activated = FALSE
    /\ parses = [key \in FileKeys |-> 0]
    /\ runs = [r \in RunIds |-> IdleRun]
    /\ probe = NoProbe

\* the component after ngOnInit, the form edits of the probe and the
\* selection of the probe's file: onFileUpload has handed it to Papa.parse
InitProbe ==
    /\ probe \in Probes
    /\ parsedRows = << >>
    /\ mappedRows = << >>
    /\ previewRows = << >>
    /\ isParsing = TRUE
    /\ isDragOver = FALSE
    /\ isImporting = FALSE
    /\ importProgress = 0
    /\ errorMessage = NullMsg
    /\ successMessage = NullMsg
    /\ importedCount = 0
    /\ importForm = probe.form
    /\ activated = TRUE
    /\ parses = [key \in FileKeys |-> IF key = "probe" THEN 1 ELSE 0]
    /\ runs = [r \in RunIds |-> IdleRun]

\* the file of the probe, as Papa.parse reports it
ProbeFile == ParsedFile(CsvName("probe"), probe.data, << >>)

\* ------------------------------------------------------------------------
\* Helpers of the handlers
\* ------------------------------------------------------------------------
resetState ==
    /\ parsedRows' = << >>
    /\ mappedRows' = << >>
    /\ previewRows' = << >>
    /\ isParsing' = FALSE
    /\ isDragOver' = FALSE
    /\ isImporting' = FALSE
    /\ importProgress' = 0
    /\ errorMessage' = NullMsg
    /\ successMessage' = NullMsg
    /\ importedCount' = 0

RECURSIVE SumOver(_, _)
SumOver(f, S) ==
    IF S = {} THEN 0
    ELSE LET x == CHOOSE y \in S : TRUE IN f[x] + SumOver(f, S \ {x})

\* number of Papa.parse calls in flight
ParsesInFlight == SumOver(parses, FileKeys)

\* variant: Validators.min(0) only
FormInvalidNoMax(form) ==
    /\ form.defaultDiscount # Null
    /\ form.defaultDiscount[1] < 0

\* Validators.min(0), Validators.max(100) on defaultDiscount; an empty
\* control (null) passes both
FormInvalid(form) ==
    /\ form.defaultDiscount # Null
    /\ \/ form.defaultDiscount[1] < 0
       \/ form.defaultDiscount[1] > 100

\* Number.POSITIVE_INFINITY, the result of a division by zero
Infinity == 1000000

\* variant: Math.floor
ProgressFloor(done, total) ==
    IF total = 0 THEN Infinity
    ELSE (100 * done) \div total

\* Math.round(done / total * 100)
Progress(done, total) ==
    IF total = 0 THEN Infinity
    ELSE (200 * done + total) \div (2 * total)

\* variant: the price is reduced by the record's own discount
DiscountPriceOwn(row, defaults) == row.retailPrice * (100 - row.discount)

\* (row.retailPrice || 0) * (1 - (defaults.defaultDiscount / 100)),
\* in hundredths; null / 100 is 0
DiscountPrice(row, defaults) ==
    row.retailPrice *
        (100 - (IF defaults.defaultDiscount = Null THEN 0
                ELSE defaults.defaultDiscount[1]))

\* variant: the discounted price also replaces retailPrice
MergeDefaultsOverPrice(row, defaults) ==
    [row EXCEPT
        !.publish = Coalesce(defaults.defaultPublish, row.publish),
        !.discount = Coalesce(defaults.defaultDiscount,
                              IF row.discount = 0 THEN 0 ELSE row.discount),
        !.discountPrice = DiscountPrice(row, defaults),
        !.retailPrice = DiscountPrice(row, defaults) \div 100]

\* { ...row, publish: ..., discount: ..., discountPrice: ... }
MergeDefaults(row, defaults) ==
    [row EXCEPT
        !.publish = Coalesce(defaults.defaultPublish, row.publish),
        !.discount = Coalesce(defaults.defaultDiscount,
                              IF row.discount = 0 THEN 0 ELSE row.discount),
        !.discountPrice = DiscountPrice(row, defaults)]

\* this.mappedRows.slice(i, i + batchSize)
BatchAt(rows, i) == Slice(rows, i + 1, i + batchSize)

\* the create-operations issued by batch.map(async (row) => ...): one per
\* record of the batch, in order; k numbers the batch, index is the position
\* of the record in mappedRows
IssueBatch(batch, i, defaults, k) ==
    [j \in 1..Len(batch) |->
        [batch |-> k, index |-> i + j,
         input |-> MergeDefaults(batch[j], defaults)]]

\* variant: no catch block, the promise of a record rejects when the create-
\* operation throws
RowResultNoCatch(ok) == IF ok THEN "result" ELSE "rejected"

\* what the promise of one record settles with: the result of the create-
\* operation, or null when it threw and the catch block returned null; the
\* promise never rejects
RowResult(ok) == IF ok THEN "result" ELSE "null"

\* variant: i + batchSize
ProcessedFullBatch(run) == run.i + batchSize

\* i + batch.length
Processed(run) == run.i + Len(run.batch)

\* variant: any imported record counts as a full success
FullSuccessAny(count, rows) == count > 0

\* this.importedCount === this.mappedRows.length
FullSuccess(count, rows) == count = Len(rows)

\* variant: the batch counts as settled while one promise is still pending
AllSettledEarly(run) == run.pending <= 1

\* Promise.all(batchPromises) has resolved
AllSettled(run) == run.pending = 0

\* variant: batchResults.length
NonNullCountAll(run) == Len(run.batch)

\* batchResults.filter(r => r !== null).length
NonNullCount(run) == run.nonNull

\* variant: the loop stops before a last, smaller batch
LoopContinuesShort(i, rows) == i + batchSize <= Len(rows)

\* i < this.mappedRows.length
LoopContinues(i, rows) == i < Len(rows)

\* the slot a new invocation takes
FreeSlots == {r \in RunIds : runs[r].pc = "idle"}

NewSlot == CHOOSE r \in FreeSlots : \A q \in FreeSlots : r <= q

RunsInFlight == {r \in RunIds : runs[r].pc \in {"await", "yield"}}

\* no parse and no import run is in flight
Quiescent == ParsesInFlight = 0 /\ RunsInFlight = {}

\* ------------------------------------------------------------------------
\* Lifecycle and drag feedback
\* ------------------------------------------------------------------------
NgOnInit ==
    /\ ~activated
    /\ activated' = TRUE
    /\ resetState
    /\ UNCHANGED <<importForm, parses, runs, probe>>

OnDragOver ==
    /\ activated
    /\ isDragOver' = TRUE
    /\ UNCHANGED <<parsedRows, mappedRows, previewRows, isParsing, isImporting,
                   importProgress, errorMessage, successMessage, importedCount,
                   importForm, activated, parses, runs, probe>>

OnDragLeave ==
    /\ activated
    /\ isDragOver' = FALSE
    /\ UNCHANGED <<parsedRows, mappedRows, previewRows, isParsing, isImporting,
                   importProgress, errorMessage, successMessage, importedCount,
                   importForm, activated, parses, runs, probe>>

\* the operator edits a control of importForm
SetDefaultPublish(p) ==
    /\ activated
    /\ importForm' = [importForm EXCEPT !.defaultPublish = p]
    /\ UNCHANGED <<session, activated, parses, runs, probe>>

SetDefaultDiscount(d) ==
    /\ activated
    /\ importForm' = [importForm EXCEPT !.defaultDiscount = d]
    /\ UNCHANGED <<session, activated, parses, runs, probe>>

\* ------------------------------------------------------------------------
\* File selection and parsing
\* ------------------------------------------------------------------------
\* the file is accepted: it exists and its name ends with .csv
Accepted(files) == files # << >> /\ EndsWithCsv(files[1].name)

\* body of onFileUpload: what it does to isParsing, errorMessage and the
\* parser; everything else is left alone
onFileUpload(files) ==
    IF ~Accepted(files)
    THEN /\ errorMessage' = SelectCsvMsg
         /\ UNCHANGED <<isParsing, parses>>
    ELSE /\ ParsesInFlight < MaxParses
         /\ isParsing' = TRUE
         /\ errorMessage' = NullMsg
         /\ parses' = [parses EXCEPT ![files[1].name.base] = @ + 1]

OnFileUpload(files) ==
    /\ activated
    /\ onFileUpload(files)
    /\ UNCHANGED <<parsedRows, mappedRows, previewRows, isDragOver, isImporting,
                   importProgress, successMessage, importedCount,
                   importForm, activated, runs, probe>>

OnDrop(files) ==
    /\ activated
    /\ isDragOver' = FALSE
    /\ IF files # << >>
       THEN IF EndsWithCsv(files[1].name)
            THEN onFileUpload(files)
            ELSE /\ errorMessage' = DropCsvMsg
                 /\ UNCHANGED <<isParsing, parses>>
       ELSE UNCHANGED <<errorMessage, isParsing, parses>>
    /\ UNCHANGED <<parsedRows, mappedRows, previewRows, isImporting,
                   importProgress, successMessage, importedCount,
                   importForm, activated, runs, probe>>

\* results.errors.filter(e => e.code !== 'TooFewFields')
NonFieldErrors(errors) == SelectSeq(errors, LAMBDA e : e.code # "TooFewFields")

\* the `complete` callback of Papa.parse
ParseComplete(f) ==
    /\ parses[f.name.base] > 0
    /\ f.outcome = "complete"
    /\ parses' = [parses EXCEPT ![f.name.base] = @ - 1]
    /\ isParsing' = FALSE
    /\ LET nonFieldErrors == NonFieldErrors(f.errors) IN
       IF Len(nonFieldErrors) > 0
       THEN /\ errorMessage' = ParseErrorsMsg(nonFieldErrors[1].message)
            /\ UNCHANGED <<parsedRows, mappedRows, previewRows, successMessage>>
       ELSE /\ parsedRows' = FilterSKU(f.data)
            /\ mappedRows' = mapToCabinetProduct(parsedRows')
            /\ previewRows' = Slice(mappedRows', 1, PreviewSize)
            /\ successMessage' = MappedMsg(Len(mappedRows'), Len(parsedRows'))
            /\ UNCHANGED errorMessage
    /\ UNCHANGED <<isDragOver, isImporting, importProgress, importedCount,
                   importForm, activated, runs, probe>>

\* the `error` callback of Papa.parse
ParseError(f) ==
    /\ parses[f.name.base] > 0
    /\ f.outcome = "error"
    /\ parses' = [parses EXCEPT ![f.name.base] = @ - 1]
    /\ isParsing' = FALSE
    /\ errorMessage' = ParseFailedMsg(f.message)
    /\ UNCHANGED <<parsedRows, mappedRows, previewRows, isDragOver, isImporting,
                   importProgress, successMessage, importedCount,
                   importForm, activated, runs, probe>>

\* ------------------------------------------------------------------------
\* Batch Importer: onImportRows
\* ------------------------------------------------------------------------
\* one pass of the loop body up to `await Promise.all`: slice the batch and
\* issue its create-operations
StartBatch(run, i) ==
    LET batch == BatchAt(mappedRows, i) IN
    [run EXCEPT
        !.pc = "await",
        !.i = i,
        !.batch = batch,
        !.pending = Len(batch),
        !.nonNull = 0,
        !.batches = @ + 1,
        !.calls = @ \o IssueBatch(batch, i, run.defaults, run.batches + 1)]

\* the invocation, up to its first await
OnImportRows ==
    /\ activated
    /\ IF FormInvalid(importForm) \/ Len(mappedRows) = 0
       THEN /\ errorMessage' = InvalidMsg
            /\ UNCHANGED <<isImporting, importProgress, importedCount,
                           successMessage, runs>>
       ELSE /\ FreeSlots # {}
            /\ isImporting' = TRUE
            /\ importProgress' = 0
            /\ importedCount' = 0
            /\ errorMessage' = NullMsg
            /\ successMessage' = NullMsg
            /\ runs' = [runs EXCEPT ![NewSlot] =
                            StartBatch([IdleRun EXCEPT !.defaults = importForm],
                                       0)]
    /\ UNCHANGED <<parsedRows, mappedRows, previewRows, isParsing, isDragOver,
                   importForm, activated, parses, probe>>

\* one create-operation of run r settles: it resolves (ok) or throws.  When
\* it is the last of its batch, Promise.all resolves and the invocation goes
\* on to the setTimeout(0) await.  A promise that rejected would reject
\* Promise.all and end the invocation at once.
Settle(r, ok) ==
    /\ runs[r].pc = "await"
    /\ runs[r].pending > 0
    /\ LET result  == RowResult(ok)
           settled == [runs[r] EXCEPT
                          !.pending = @ - 1,
                          !.nonNull = IF result # "null" THEN @ + 1 ELSE @,
                          !.succeeded = IF ok THEN @ + 1 ELSE @,
                          !.failed = IF ok THEN @ ELSE @ + 1]
       IN  IF result = "rejected"
           THEN /\ runs' = [runs EXCEPT ![r] = IdleRun]
                /\ UNCHANGED <<importedCount, importProgress>>
           ELSE IF AllSettled(settled)
           THEN /\ importedCount' = importedCount + NonNullCount(settled)
                /\ importProgress' =
                       Progress(Processed(settled), Len(mappedRows))
                /\ runs' = [runs EXCEPT ![r] = [settled EXCEPT !.pc = "yield"]]
           ELSE /\ runs' = [runs EXCEPT ![r] = settled]
                /\ UNCHANGED <<importedCount, importProgress>>
    /\ UNCHANGED <<parsedRows, mappedRows, previewRows, isParsing, isDragOver,
                   isImporting, errorMessage, successMessage,
                   importForm, activated, parses, probe>>

\* the setTimeout(0) of run r fires: i += batchSize, then the next batch, or
\* the end of the loop and the final report
Resume(r) ==
    /\ runs[r].pc = "yield"
    /\ LET i == runs[r].i + batchSize IN
       IF LoopContinues(i, mappedRows)
       THEN /\ runs' = [runs EXCEPT ![r] = StartBatch(runs[r], i)]
            /\ UNCHANGED <<isImporting, errorMessage, successMessage>>
       ELSE /\ runs' = [runs EXCEPT ![r] = IdleRun]
            /\ isImporting' = FALSE
            /\ IF FullSuccess(importedCount, mappedRows)
               THEN /\ successMessage' = ImportedAllMsg(importedCount)
                    /\ UNCHANGED errorMessage
               ELSE /\ errorMessage' =
                           ImportedPartMsg(importedCount, Len(mappedRows))
                    /\ UNCHANGED successMessage
    /\ UNCHANGED <<parsedRows, mappedRows, previewRows, isParsing, isDragOver,
                   importProgress, importedCount, importForm, activated, parses,
                   probe>>

\* ------------------------------------------------------------------------
\* Specifications
\* ------------------------------------------------------------------------
\* Spec: every handler may be invoked at any time.
Next ==
    \/ NgOnInit
    \/ OnDragOver
    \/ OnDragLeave
    \/ \E p \in PublishInputs : SetDefaultPublish(p)
    \/ \E d \in DiscountInputs : SetDefaultDiscount(d)
    \/ \E files \in FileListsOf(Files) : OnFileUpload(files)
    \/ \E files \in FileListsOf(Files) : OnDrop(files)
    \/ \E f \in Files : ParseComplete(f)
    \/ \E f \in Files : ParseError(f)
    \/ OnImportRows
    \/ \E r \in RunIds, ok \in BOOLEAN : Settle(r, ok)
    \/ \E r \in RunIds : Resume(r)

Spec == Init /\ [][Next]_vars

\* SpecSolo: the operator selects a file or starts an import only when no
\* parse and no import run is in flight; the files have up to MaxRows rows.
NextSolo ==
    \/ NgOnInit
    \/ OnDragOver
    \/ OnDragLeave
    \/ \E p \in PublishInputs : SetDefaultPublish(p)
    \/ \E d \in DiscountInputs : SetDefaultDiscount(d)
    \/ \E files \in FileListsOf(SoloFiles) : Quiescent /\ OnFileUpload(files)
    \/ \E files \in FileListsOf(SoloFiles) : Quiescent /\ OnDrop(files)
    \/ \E f \in SoloFiles : ParseComplete(f)
    \/ \E f \in SoloFiles : ParseError(f)
    \/ Quiescent /\ OnImportRows
    \/ \E r \in RunIds, ok \in BOOLEAN : Settle(r, ok)
    \/ \E r \in RunIds : Resume(r)

SpecSolo == Init /\ [][NextSolo]_vars

\* SpecProbe: one file is parsed, then imported by runs that do not overlap;
\* the file and the form are drawn from Probes.
NextProbe ==
    \/ ParseComplete(ProbeFile)
    \/ Quiescent /\ OnImportRows
    \/ \E r \in RunIds, ok \in BOOLEAN : Settle(r, ok)
    \/ \E r \in RunIds : Resume(r)

SpecProbe == InitProbe /\ [][NextProbe]_vars

\* SpecProbeFair: SpecProbe where every issued create-operation eventually
\* settles, with either outcome, and every setTimeout(0) eventually fires.
FairRuns ==
    \A r \in RunIds :
        /\ WF_vars(\E ok \in BOOLEAN : Settle(r, ok))
        /\ WF_vars(Resume(r))

SpecProbeFair == SpecProbe /\ FairRuns

\* ------------------------------------------------------------------------
\* Properties
\* ------------------------------------------------------------------------
\* run r is invoked / returns in this step
Starting(r) == runs[r].pc = "idle" /\ runs'[r].pc # "idle"

Finishing(r) == runs[r].pc = "yield" /\ runs'[r].pc = "idle"

\* create-operations of a run that are issued and not yet settled
Unsettled(run) == Len(run.calls) - run.succeeded - run.failed

\* every session attribute has its initial value
SessionIsInitial ==
    /\ parsedRows = << >>
    /\ mappedRows = << >>
    /\ previewRows = << >>
    /\ importProgress = 0
    /\ importedCount = 0
    /\ isImporting = FALSE
    /\ errorMessage = NullMsg
    /\ successMessage = NullMsg

\* C1: within one run, create-operations are issued only when no create-
\* operation of the run is unsettled (batch k+1 starts after batch k has
\* settled), and at most batchSize create-operations of the run are pending.
C1_BatchesInSequence ==
    [][\A r \in RunIds :
          /\ Unsettled(runs'[r]) <= batchSize
          /\ Len(runs'[r].calls) > Len(runs[r].calls) => Unsettled(runs[r]) = 0
      ]_vars

\* a second batch is in flight after the first one, of batchSize records,
\* has settled
C1_Witness ==
    \E r \in RunIds :
        /\ runs[r].batches = 2
        /\ Unsettled(runs[r]) > 0
        /\ runs[r].succeeded + runs[r].failed = batchSize

\* C2: a run over n > 0 records issues exactly n create-operations, the k-th
\* for the k-th record, in ceil(n / batchSize) batches that are contiguous
\* slices of batchSize records, the last one possibly smaller.
IssuedOncePerRecord(run, rows) ==
    /\ Len(rows) > 0
    /\ Len(run.calls) = Len(rows)
    /\ run.batches = (Len(rows) + batchSize - 1) \div batchSize
    /\ \A k \in 1..Len(run.calls) :
          /\ run.calls[k].index = k
          /\ run.calls[k].input.wSKU = rows[k].wSKU
          /\ run.calls[k].batch = ((k - 1) \div batchSize) + 1

C2_OneCallPerRecord ==
    [][\A r \in RunIds : Finishing(r) => IssuedOncePerRecord(runs[r], mappedRows)
      ]_vars

\* a run over more than batchSize records is about to return after its second
\* batch
C2_Witness ==
    \E r \in RunIds :
        /\ runs[r].pc = "yield"
        /\ runs[r].batches = 2
        /\ Len(mappedRows) > batchSize
        /\ Len(runs[r].calls) = Len(mappedRows)

\* C3: importProgress starts at 0 when a run is invoked, never decreases
\* while the run is in flight, and is 100 when the run returns.
C3_ProgressMonotone ==
    [][\A r \in RunIds :
          /\ Starting(r) => importProgress' = 0
          /\ runs[r].pc # "idle" => importProgress' >= importProgress
          /\ Finishing(r) => importProgress' = 100
      ]_vars

\* a run is between its first and its second batch, with progress strictly
\* between 0 and 100
C3_Witness ==
    \E r \in RunIds :
        /\ runs[r].pc = "yield"
        /\ runs[r].batches = 1
        /\ importProgress > 0
        /\ importProgress < 100

\* C4: importedCount <= mappedRows.length in every reachable state.
C4_CountWithinTotal == importedCount <= Len(mappedRows)

\* C5: when a run returns, importedCount is the number of its create-
\* operations that succeeded: the total iff none failed, total - 1 when
\* exactly one failed.
C5_CountIsSucceeded ==
    [][\A r \in RunIds :
          Finishing(r) =>
              /\ importedCount' = runs[r].succeeded
              /\ importedCount' = Len(mappedRows) <=> runs[r].failed = 0
              /\ runs[r].failed = 1 => importedCount' = Len(mappedRows) - 1
      ]_vars

\* a run of two batches is about to return with exactly one failed create-
\* operation
C5_Witness ==
    \E r \in RunIds :
        /\ runs[r].pc = "yield"
        /\ runs[r].batches = 2
        /\ runs[r].failed = 1
        /\ Len(runs[r].calls) = Len(mappedRows)
        /\ importedCount = Len(mappedRows) - 1

\* C6: a failed create-operation does not end the run: a run awaiting its
\* batch never returns from there, and a run with failures returns only after
\* a create-operation was issued for every record, with isImporting false.
C6_FailureDoesNotAbort ==
    [][\A r \in RunIds :
          /\ runs[r].pc = "await" => runs'[r].pc # "idle"
          /\ (Finishing(r) /\ runs[r].failed > 0) =>
                 /\ Len(runs[r].calls) = Len(mappedRows)
                 /\ \A k \in 1..Len(mappedRows) : runs[r].calls[k].index = k
                 /\ isImporting' = FALSE
      ]_vars

\* the second batch has been issued although a create-operation of the first
\* batch failed
C6_Witness ==
    \E r \in RunIds :
        /\ runs[r].batches = 2
        /\ runs[r].pc = "await"
        /\ runs[r].pending = Len(runs[r].batch)
        /\ runs[r].failed > 0

\* C7: when a run returns it reports a full success (successMessage set,
\* errorMessage null) if importedCount is the number of records, and else a
\* partial success (errorMessage with both counts, successMessage null).
C7_OneOutcomeReported ==
    [][\A r \in RunIds :
          Finishing(r) =>
              IF importedCount' = Len(mappedRows)
              THEN /\ successMessage' = ImportedAllMsg(importedCount')
                   /\ errorMessage' = NullMsg
              ELSE /\ errorMessage' =
                          ImportedPartMsg(importedCount', Len(mappedRows))
                   /\ successMessage' = NullMsg
      ]_vars

\* a run has returned and reported a partial success
C7_Witness ==
    /\ RunsInFlight = {}
    /\ isImporting = FALSE
    /\ importedCount > 0
    /\ importedCount < Len(mappedRows)
    /\ errorMessage = ImportedPartMsg(importedCount, Len(mappedRows))
    /\ successMessage = NullMsg

\* the discount of the form is outside [0, 100]
DiscountOutOfRange ==
    /\ importForm.defaultDiscount # Null
    /\ \/ importForm.defaultDiscount[1] < 0
       \/ importForm.defaultDiscount[1] > 100

\* C8: onImportRows invoked with no mapped rows or with a discount outside
\* [0, 100] issues no create-operation and changes nothing but errorMessage,
\* which it sets to the one invalid-state message.
C8_RefusesToStart ==
    [][(OnImportRows /\ (Len(mappedRows) = 0 \/ DiscountOutOfRange)) =>
          /\ errorMessage' = InvalidMsg
          /\ UNCHANGED <<parsedRows, mappedRows, previewRows, isParsing,
                         isDragOver, isImporting, importProgress,
                         successMessage, importedCount, importForm, activated,
                         parses, runs>>
      ]_vars

\* onImportRows has refused to start on mapped rows because of the discount
C8_Witness ==
    /\ errorMessage = InvalidMsg
    /\ DiscountOutOfRange
    /\ Len(mappedRows) > 0
    /\ RunsInFlight = {}
    /\ isImporting = FALSE

\* C9: right after onFileUpload has accepted a file (a parse has been started
\* and isParsing is true), every session attribute has its initial value.
C9_ResetOnSelection ==
    [][(parses' # parses /\ isParsing') => SessionIsInitial']_vars

\* C10: after a parse has ended in a structural failure (a parser error other
\* than TooFewFields, or the error callback), parsedRows, mappedRows and
\* previewRows are empty.
C10_NoDataAfterFailure ==
    [][(\E f \in AllFiles :
           \/ ParseError(f)
           \/ ParseComplete(f) /\ Len(NonFieldErrors(f.errors)) > 0) =>
          /\ parsedRows' = << >>
          /\ mappedRows' = << >>
          /\ previewRows' = << >>
      ]_vars

\* C11: while a create-operation of the current batch is unsettled,
\* importedCount and importProgress do not change; when the batch has
\* settled they are updated once: importedCount then counts the successes of
\* every settled batch exactly once, and both values are functions of counts
\* alone, whatever the order in which the create-operations completed.
C11_UpdatedOncePerBatch ==
    [][\A r \in RunIds :
          /\ (runs[r].pc = "await" /\ Unsettled(runs'[r]) > 0) =>
                 /\ importedCount' = importedCount
                 /\ importProgress' = importProgress
          /\ runs'[r].pc = "await" =>
                 importedCount' = runs'[r].succeeded - runs'[r].nonNull
          /\ runs'[r].pc = "yield" =>
                 /\ Unsettled(runs'[r]) = 0
                 /\ importedCount' = runs'[r].succeeded
                 /\ importProgress' =
                        Progress(Len(runs'[r].calls), Len(mappedRows))
      ]_vars

\* in the second batch some create-operations have succeeded and others are
\* pending, and importedCount still is the count of the first batch
C11_Witness ==
    \E r \in RunIds :
        /\ runs[r].pc = "await"
        /\ runs[r].batches = 2
        /\ runs[r].nonNull > 0
        /\ runs[r].pending > 0
        /\ importedCount > 0
        /\ importedCount = runs[r].succeeded - runs[r].nonNull

\* C12: while a run is in progress (isImporting is true) an invocation of
\* onImportRows starts no run, and at most one run is in flight at any time.
C12_OneRunAtATime ==
    [][/\ \A r \in RunIds : isImporting => ~Starting(r)
       /\ Cardinality({r \in RunIds : runs'[r].pc # "idle"}) <= 1
      ]_vars

\* the row has a SKU column that is not empty
HasSKU(row) == "SKU" \in DOMAIN row /\ row["SKU"] # Empty

\* C13: when the parse of a file completes, parsedRows are the rows of the
\* file with a non-empty SKU, in order, and mappedRows has one record for
\* each of them and none for any other row; no error message is set for the
\* dropped rows; every create-operation is issued for a record of such a row.
C13_OnlyRowsWithSKU ==
    [][/\ ParseComplete(ProbeFile) =>
              /\ parsedRows' = SelectSeq(probe.data, HasSKU)
              /\ Len(mappedRows') = Len(parsedRows')
              /\ \A k \in 1..Len(mappedRows') :
                     /\ HasSKU(parsedRows'[k])
                     /\ mappedRows'[k] = MapRow(parsedRows'[k])
              /\ errorMessage' = NullMsg
       /\ \A r \in RunIds : \A k \in 1..Len(runs'[r].calls) :
              LET call == runs'[r].calls[k] IN
              /\ call.index \in 1..Len(parsedRows')
              /\ HasSKU(parsedRows'[call.index])
              /\ call.input.wSKU = MapRow(parsedRows'[call.index]).wSKU
      ]_vars

\* a file with rows that lack a SKU has been parsed without an error message
\* and a run has issued create-operations for the other rows only
C13_Witness ==
    /\ \E k \in 1..Len(probe.data) : ~HasSKU(probe.data[k])
    /\ \E r \in RunIds :
           /\ runs[r].pc = "yield"
           /\ Len(runs[r].calls) = Len(mappedRows)
    /\ Len(mappedRows) > 1
    /\ Len(mappedRows) < Len(probe.data)
    /\ errorMessage = NullMsg

\* C14: every record passed to the create-operation has the publish (resp.
\* discount) of the form when the operator has set defaultPublish (resp.
\* defaultDiscount) to a value, and the record's own mapped value when the
\* operator has not; a record mapped with publish = true is then sent with
\* publish = true.
C14_OverrideOrOwn ==
    \A r \in RunIds : \A k \in 1..Len(runs[r].calls) :
        LET call     == runs[r].calls[k]
            own      == mappedRows[call.index]
            defaults == runs[r].defaults
        IN  /\ call.input.publish =
                   IF probe.publishSet /\ defaults.defaultPublish # Null
                   THEN defaults.defaultPublish[1]
                   ELSE own.publish
            /\ call.input.discount =
                   IF probe.discountSet /\ defaults.defaultDiscount # Null
                   THEN defaults.defaultDiscount[1]
                   ELSE own.discount

\* C15: for a discount d of the form in [0, 100] and a retail price p >= 0,
\* the record passed to the create-operation has discountPrice =
\* p * (1 - d/100) (in hundredths: p * (100 - d)), which is >= 0, is p at
\* d = 0 and 0 at d = 100, and its discount field is the same d.
C15_DiscountPrice ==
    \A r \in RunIds : \A k \in 1..Len(runs[r].calls) :
        LET input == runs[r].calls[k].input
            p     == mappedRows[runs[r].calls[k].index].retailPrice
            dflt  == runs[r].defaults.defaultDiscount
        IN  (dflt # Null /\ dflt[1] >= 0 /\ dflt[1] <= 100 /\ p >= 0) =>
                /\ input.discountPrice = p * (100 - dflt[1])
                /\ input.discountPrice >= 0
                /\ dflt[1] = 0 => input.discountPrice = 100 * p
                /\ dflt[1] = 100 => input.discountPrice = 0
                /\ input.discount = dflt[1]

\* a record with a positive price is sent at a discount of 100, and so with
\* a discountPrice of 0
C15_Witness ==
    \E r \in RunIds : \E k \in 1..Len(runs[r].calls) :
        /\ runs[r].defaults.defaultDiscount = Some(100)
        /\ runs[r].calls[k].input.retailPrice > 0
        /\ runs[r].calls[k].input.discountPrice = 0
        /\ runs[r].calls[k].input.discount = 100

\* C16: the doorStyle of a mapped record is 'Double Door' / 'Single Door'
\* when the Tags of its row carry the double-door / single-door marker; else
\* '<n> Door' when the short description has a Door entry n; else, with no
\* tag marker and no Door entry, the style derived from the title ('Shaker'
\* when the title yields none).
C16_DoorStyleOrder ==
    \A k \in 1..Len(mappedRows) :
        LET row   == parsedRows[k]
            tags  == Field(row, "Tags")
            entry == DescMatch(Field(row, "Short description"), "door:")
        IN  mappedRows[k].doorStyle =
                IF TagsInclude(tags, "double-door")
                THEN <<Word("Double"), Word("Door")>>
                ELSE IF TagsInclude(tags, "single-door")
                THEN <<Word("Single"), Word("Door")>>
                ELSE IF entry # Null
                THEN <<Num(entry[1]), Word("Door")>>
                ELSE TitleDoorStyle(Field(row, "Name"))

\* C17: the retailPrice of a mapped record is the value of the first of the
\* columns 'Regular price', 'Sale price' that is non-empty and parses as a
\* number, and 0 when neither does; a non-numeric 'Regular price' next to a
\* numeric 'Sale price' gives the 'Sale price'.
C17_FirstNumericPrice ==
    \A k \in 1..Len(mappedRows) :
        LET regular == parseFloat(Field(parsedRows[k], "Regular price"))
            sale    == parseFloat(Field(parsedRows[k], "Sale price"))
        IN  mappedRows[k].retailPrice =
                IF regular # Null THEN regular[1]
                ELSE IF sale # Null THEN sale[1]
                ELSE 0

\* C18: the width (resp. height) of a mapped record is the explicit value of
\* the short description ('Width: <number>' / 'Height: <number>') when there
\* is one, whatever the title says; else the value of the title suffix
\* '<w>W X <h>H'; else 0.  The door count, which the record shows in its
\* '<n> Door' label when the Tags carry no marker, is the integer after
\* 'Door:', and 1 when there is none.
C18_ExplicitDimensionWins ==
    \A k \in 1..Len(mappedRows) :
        LET row    == parsedRows[k]
            nm     == Field(row, "Name")
            sd     == Field(row, "Short description")
            tags   == Field(row, "Tags")
            width  == DescMatch(sd, "width:")
            height == DescMatch(sd, "height:")
            door   == DescMatch(sd, "door:")
        IN  /\ mappedRows[k].width =
                   IF width # Null THEN width[1]
                   ELSE IF SizeMatch(nm) THEN nm[Len(nm) - 2].n
                   ELSE 0
            /\ mappedRows[k].height =
                   IF height # Null THEN height[1]
                   ELSE IF SizeMatch(nm) THEN nm[Len(nm)].n
                   ELSE 0
            /\ (~TagsInclude(tags, "double-door") /\
                ~TagsInclude(tags, "single-door")) =>
                   mappedRows[k].doorStyle =
                       <<Num(IF door # Null THEN door[1] ELSE 1), Word("Door")>>

\* C19: wSKU and vSKU of a mapped record are the prefixes 'W-' and 'V-'
\* followed by one and the same remainder: the SKU of the source row without
\* its prefix 'AZ-'.
C19_PrefixesOnly ==
    \A k \in 1..Len(mappedRows) :
        LET sku  == parsedRows[k]["SKU"]
            rest == IF sku[1] = Word("AZ-") THEN Tail(sku) ELSE sku
        IN  /\ mappedRows[k].wSKU = <<Word("W-")>> \o rest
            /\ mappedRows[k].vSKU = <<Word("V-")>> \o rest

Min(a, b) == IF a < b THEN a ELSE b

\* round(done / total * 100): the integer p with p - 1/2 <= x < p + 1/2
RoundedPercent(done, total) ==
    CHOOSE p \in 0..100 :
        /\ 2 * total * p - total <= 200 * done
        /\ 200 * done < 2 * total * p + total

\* C20: when the j-th batch of a run over n records has settled,
\* importProgress is round(min(j * batchSize, n) / n * 100) and the batch had
\* min(batchSize, n - (j - 1) * batchSize) records; for n = 25 the batches
\* have 10, 10 and 5 records and the progress values are 40, 80 and 100.
C20_ProgressPerBatch ==
    [][\A r \in RunIds :
          (runs[r].pc = "await" /\ runs'[r].pc = "yield") =>
              LET j == runs'[r].batches
                  n == Len(mappedRows)
                  size == Len(runs'[r].batch)
              IN  /\ importProgress' = RoundedPercent(Min(j * batchSize, n), n)
                  /\ size = Min(batchSize, n - (j - 1) * batchSize)
                  /\ n = 25 =>
                        /\ j \in 1..3
                        /\ j = 1 => size = 10 /\ importProgress' = 40
                        /\ j = 2 => size = 10 /\ importProgress' = 80
                        /\ j = 3 => size = 5 /\ importProgress' = 100
      ]_vars

\* the third batch, of 5 records, of a run over 25 records has settled and
\* importProgress is 100
C20_Witness ==
    \E r \in RunIds :
        /\ Len(mappedRows) = 25
        /\ runs[r].pc = "yield"
        /\ runs[r].batches = 3
        /\ Len(runs[r].batch) = 5
        /\ importProgress = 100

\* C21: in every reachable state previewRows is the first
\* min(10, |mappedRows|) records of mappedRows, in the same order; it is
\* empty whenever mappedRows is empty.
C21_PreviewIsPrefix ==
    /\ Len(previewRows) = Min(10, Len(mappedRows))
    /\ \A k \in 1..Len(previewRows) : previewRows[k] = mappedRows[k]
    /\ mappedRows = << >> => previewRows = << >>

\* a file with more than 10 records has been mapped and the preview holds
\* the first 10 of them
C21_Witness ==
    /\ Len(mappedRows) > 10
    /\ Len(previewRows) = 10
    /\ previewRows[10] = mappedRows[10]
    /\ previewRows[1] = mappedRows[1]

\* a run has reported its outcome: the success or the partial-success message
TerminalMessage ==
    \/ successMessage = ImportedAllMsg(importedCount)
    \/ errorMessage = ImportedPartMsg(importedCount, Len(mappedRows))

\* C22: if every issued create-operation eventually settles, every started
\* run eventually returns, with isImporting false and the success or the
\* partial-success message set, whatever the outcomes of its records.
C22_RunCompletes ==
    \A r \in RunIds :
        (runs[r].pc # "idle") ~>
            (runs[r].pc = "idle" /\ isImporting = FALSE /\ TerminalMessage)

\* a run over more than one batch with failed records has returned
C22_Witness ==
    /\ RunsInFlight = {}
    /\ isImporting = FALSE
    /\ importProgress = 100
    /\ Len(mappedRows) > batchSize
    /\ importedCount < Len(mappedRows)
    /\ errorMessage = ImportedPartMsg(importedCount, Len(mappedRows))

\* the records mapped from the file of the probe
OriginalRecords == mapToCabinetProduct(probe.data)

\* C23: no step of an import run changes parsedRows, mappedRows or
\* previewRows, and every input a run passes to the create-operation, in a
\* first invocation as in a later one, is the record as it was mapped from
\* the file, with publish, discount and discountPrice alone replaced by
\* values computed from that record and the defaults of the run: two runs
\* with the same defaults send the same inputs.
C23_RunLeavesRowsAlone ==
    [][/\ (\E r \in RunIds : runs[r].pc # "idle" \/ runs'[r].pc # "idle") =>
              UNCHANGED <<parsedRows, mappedRows, previewRows>>
       /\ \A r \in RunIds : \A k \in 1..Len(runs'[r].calls) :
              LET input    == runs'[r].calls[k].input
                  original == OriginalRecords[runs'[r].calls[k].index]
                  defaults == runs'[r].defaults
              IN  /\ mappedRows'[runs'[r].calls[k].index] = original
                  /\ [input EXCEPT !.publish = original.publish,
                                   !.discount = original.discount,
                                   !.discountPrice = original.discountPrice]
                         = original
                  /\ input.publish =
                         Coalesce(defaults.defaultPublish, original.publish)
                  /\ input.discount =
                         Coalesce(defaults.defaultDiscount, original.discount)
                  /\ input.discountPrice =
                         original.retailPrice *
                             (100 - Coalesce(defaults.defaultDiscount, 0))
      ]_vars

\* a run with overrides that differ from the records' own values has
\* returned, and the rows of the session still are what the parse produced
C23_Witness ==
    /\ RunsInFlight = {}
    /\ TerminalMessage
    /\ importForm.defaultDiscount = Some(50)
    /\ importForm.defaultPublish = Some(TRUE)
    /\ Len(mappedRows) > 0
    /\ mappedRows = OriginalRecords
    /\ mappedRows[1].retailPrice > 0
    /\ mappedRows[1].discountPrice = 0
    /\ ~mappedRows[1].publish
    /\ previewRows = mappedRows

\* C24: in every reachable state at most one of errorMessage and
\* successMessage is non-null.
C24_OneMessageAtMost == errorMessage = NullMsg \/ successMessage = NullMsg

====
